---- MODULE Spec2Model ----
\* Model of crates/common/src/blobs.rs: the preloaded blob provider built from
\* BlobWitnessData (batch KZG verification, versioned hashes, reversed entry
\* stack), its get_blobs query, and the field-element helpers.
EXTENDS Integers, Sequences, FiniteSets

\* ---------------------------------------------------------------- bounds
\* Longest blobs / commitments / proofs vector of a BlobWitnessData.
MaxN == 2
\* Longest blob_hashes slice handed to get_blobs: one more than a full store.
MaxReq == MaxN + 1
\* Width in bytes of a B256 / U256 / field element (32 in the program).
WORD_BYTES == 2
\* Field elements per blob (4096 in the program).
FIELD_ELEMENTS_PER_BLOB == 3
\* Longest free-form index iterator handed to field_elements.
MaxIter == 2

VARIABLES
    pc,         \* "start" | "ready" | "ctor_panic" | "get_panic" | "codec";
                \* "ctor_err" would be From handing an error value to its caller
    value,      \* the BlobWitnessData handed to From ("moved" once consumed)
    witness,    \* what the consumed data was: its blobs and commitments in original
                \* order, the length of its proofs, whether its triples were consistent
    verified,   \* what verify_blob_kzg_proof_batch returned ("none" before the call)
    entries,    \* PreloadedBlobProvider.entries: sequence of <<B256, Blob>>
    popped,     \* number of entries popped since construction
    last,       \* the most recent get_blobs call and its outcome
    blob_data,  \* bytes of the BlobData handed to the field-element helpers
    blocks,     \* the blocks argument of intermediate_outputs / trail_data
    iterator,   \* the index iterator handed to field_elements
    lead,       \* outcome of intermediate_outputs(blob_data, blocks)
    trail,      \* outcome of trail_data(blob_data, blocks)
    felems,     \* outcome of field_elements(blob_data, iterator)
    hash,       \* bytes of the B256 handed to hash_to_fe
    fe          \* outcome of hash_to_fe(hash)

storeVars == <<value, witness, verified, entries, popped, last>>
codecVars == <<blob_data, blocks, iterator, lead, trail, felems>>
feVars == <<hash, fe>>
vars == <<pc, storeVars, codecVars, feVars>>

\* ------------------------------------------------------- sequence helpers
Min(a, b) == IF a < b THEN a ELSE b

SeqsUpTo(S, n) == UNION {[1..k -> S] : k \in 0..n}

\* core::iter::zip: stops at the shorter of the two iterators.
Zip(xs, ys) == [i \in 1..Min(Len(xs), Len(ys)) |-> <<xs[i], ys[i]>>]

\* Mutant of Rev: the reversal left out.
Rev_Omitted(xs) == xs

\* Iterator::rev
Rev(xs) == [i \in 1..Len(xs) |-> xs[Len(xs) + 1 - i]]

\* ------------------------------------------------------- KZG abstraction
\* A Blob of the witness is identified by its content; two contents exist.
BlobSet == 1..2

\* Bytes48 value that is not the encoding of a G1 point.
BadBytes48 == 0

\* The commitment the scheme assigns to blob content b.
blob_to_kzg_commitment(b) == b

\* The proof that opens blob_to_kzg_commitment(b) to b.
compute_blob_kzg_proof(b) == 10 + b

CommitmentSet == {BadBytes48} \cup {blob_to_kzg_commitment(b) : b \in BlobSet}
ProofSet == {BadBytes48} \cup {compute_blob_kzg_proof(b) : b \in BlobSet}

\* c_kzg::Blob::new(b.0): wraps the same bytes in the library's blob type.
CKzgBlobNew(b) == [bytes |-> b]

\* Blob::from(*b): back from the library's blob type to the alloy Blob.
BlobFrom(kb) == kb.bytes

\* One triple passes the pairing check.
VerifyTriple(kb, c, p) ==
    /\ c = blob_to_kzg_commitment(kb.bytes)
    /\ p = compute_blob_kzg_proof(kb.bytes)

\* Mutant of verify_blob_kzg_proof_batch: the slice lengths are not compared,
\* the triples are checked up to the shortest slice.
verify_blob_kzg_proof_batch_NoLengthCheck(blobs, commitments, proofs) ==
    LET n == Min(Len(blobs), Min(Len(commitments), Len(proofs))) IN
    IF \E i \in 1..n : commitments[i] = BadBytes48 \/ proofs[i] = BadBytes48
    THEN [ok |-> FALSE, val |-> FALSE]
    ELSE [ok |-> TRUE,
          val |-> \A i \in 1..n : VerifyTriple(blobs[i], commitments[i], proofs[i])]

\* KzgSettings::verify_blob_kzg_proof_batch -> Result<bool, Error>:
\* Err on mismatched slice lengths or on bytes that do not decode,
\* otherwise Ok(whether every triple passes).
verify_blob_kzg_proof_batch(blobs, commitments, proofs) ==
    IF Len(blobs) # Len(commitments) \/ Len(blobs) # Len(proofs)
    THEN [ok |-> FALSE, val |-> FALSE]
    ELSE IF \/ \E i \in 1..Len(commitments) : commitments[i] = BadBytes48
            \/ \E i \in 1..Len(proofs) : proofs[i] = BadBytes48
    THEN [ok |-> FALSE, val |-> FALSE]
    ELSE [ok |-> TRUE,
          val |-> \A i \in 1..Len(blobs) : VerifyTriple(blobs[i], commitments[i], proofs[i])]

\* First byte of every versioned hash.
VERSIONED_HASH_VERSION_KZG == 1

\* Stand-in for the SHA-256 digest tail of a commitment (collision free).
Sha256Tail(c) == 100 + c

\* kzg_to_versioned_hash: the digest of the commitment with the leading byte
\* replaced by the version byte.
kzg_to_versioned_hash(c) == <<VERSIONED_HASH_VERSION_KZG, Sha256Tail(c)>>

\* A B256 that is the versioned hash of no commitment.
ForeignHash == <<0, 0>>

\* Hash values a caller may put into an IndexedBlobHash.
HashSet == {kzg_to_versioned_hash(blob_to_kzg_commitment(b)) : b \in BlobSet} \cup {ForeignHash}

\* IndexedBlobHash { index, hash }, the index being the position of the hash
\* in the list shifted by first.
IndexedBlobHashes(hs, first) ==
    [i \in 1..Len(hs) |-> [index |-> first + i - 1, hash |-> hs[i]]]

\* The blob_hashes slices a caller may pass to get_blobs.
BlobHashesSet == {IndexedBlobHashes(hs, 0) : hs \in SeqsUpTo(HashSet, MaxReq)}

\* BlockInfo values handed to get_blobs.
BlockInfoSet == {"block"}

BlobWitnessData ==
    [blobs : SeqsUpTo(BlobSet, MaxN),
     commitments : SeqsUpTo(CommitmentSet, MaxN),
     proofs : SeqsUpTo(ProofSet, MaxN)]

\* ------------------------------------------------ PreloadedBlobProvider
\* The pairs of ps without those whose hash an earlier pair already has.
RECURSIVE FirstPerHash(_)
FirstPerHash(ps) ==
    IF ps = <<>> THEN <<>>
    ELSE LET front == FirstPerHash(SubSeq(ps, 1, Len(ps) - 1))
             p == ps[Len(ps)]
         IN  IF \E i \in 1..Len(front) : front[i][1] = p[1] THEN front ELSE Append(front, p)

\* Mutant of From: the entries are keyed by hash, so equal hashes are merged.
From_MergesEqualHashes(v) ==
    LET blobs  == [i \in 1..Len(v.blobs) |-> CKzgBlobNew(v.blobs[i])]
        res    == verify_blob_kzg_proof_batch(blobs, v.commitments, v.proofs)
        hashes == [i \in 1..Len(v.commitments) |-> kzg_to_versioned_hash(v.commitments[i])]
    IN  IF ~res.ok
        THEN [panic |-> TRUE, res |-> res, entries |-> <<>>]
        ELSE [panic |-> FALSE, res |-> res,
              entries |-> Rev(FirstPerHash(Zip(hashes, [i \in 1..Len(blobs) |-> BlobFrom(blobs[i])])))]

\* Mutant of From: an Err of the batch check is dropped instead of unwrapped.
From_ErrDropped(v) ==
    LET blobs  == [i \in 1..Len(v.blobs) |-> CKzgBlobNew(v.blobs[i])]
        res    == verify_blob_kzg_proof_batch(blobs, v.commitments, v.proofs)
        hashes == [i \in 1..Len(v.commitments) |-> kzg_to_versioned_hash(v.commitments[i])]
    IN  [panic |-> FALSE, res |-> res,
         entries |-> Rev(Zip(hashes, [i \in 1..Len(blobs) |-> BlobFrom(blobs[i])]))]

\* impl From<BlobWitnessData> for PreloadedBlobProvider.
\* .expect() panics on Err and discards the bool carried by Ok.
From(v) ==
    LET blobs  == [i \in 1..Len(v.blobs) |-> CKzgBlobNew(v.blobs[i])]
        res    == verify_blob_kzg_proof_batch(blobs, v.commitments, v.proofs)
        hashes == [i \in 1..Len(v.commitments) |-> kzg_to_versioned_hash(v.commitments[i])]
    IN  IF ~res.ok
        THEN [panic |-> TRUE, res |-> res, entries |-> <<>>]
        ELSE [panic |-> FALSE, res |-> res,
              entries |-> Rev(Zip(hashes, [i \in 1..Len(blobs) |-> BlobFrom(blobs[i])]))]

\* Mutant of HashMatches: the blob is kept whatever hash was requested.
HashMatches_Always(requested, stored) == TRUE

\* hash.hash == blob_hash
HashMatches(requested, stored) == requested.hash = stored

\* s without its i-th element.
RemoveAt(s, i) == SubSeq(s, 1, i - 1) \o SubSeq(s, i + 1, Len(s))

\* Mutant of get_blobs_loop: the requested hash is looked up in the whole
\* store; the entry nearest to the end that has it is removed and served.
RECURSIVE get_blobs_loop_LooksUpByHash(_, _, _, _)
get_blobs_loop_LooksUpByHash(ents, blob_hashes, blobs, removed) ==
    IF blob_hashes = <<>>
    THEN [status |-> "Ok", blobs |-> blobs, entries |-> ents, removed |-> removed]
    ELSE IF ents = <<>>
    THEN [status |-> "Panic", blobs |-> <<>>, entries |-> ents, removed |-> removed]
    ELSE LET found == {i \in 1..Len(ents) : HashMatches(Head(blob_hashes), ents[i][1])} IN
         IF found = {}
         THEN get_blobs_loop_LooksUpByHash(SubSeq(ents, 1, Len(ents) - 1), Tail(blob_hashes),
                                           blobs, Append(removed, ents[Len(ents)]))
         ELSE LET i == CHOOSE k \in found : \A l \in found : l <= k IN
              get_blobs_loop_LooksUpByHash(RemoveAt(ents, i), Tail(blob_hashes),
                                           Append(blobs, ents[i][2]), Append(removed, ents[i]))

\* Mutant of get_blobs_loop: the last entry is only removed when its hash is
\* the requested one, a mismatching entry stays in the store.
RECURSIVE get_blobs_loop_KeepsMismatch(_, _, _, _)
get_blobs_loop_KeepsMismatch(ents, blob_hashes, blobs, removed) ==
    IF blob_hashes = <<>>
    THEN [status |-> "Ok", blobs |-> blobs, entries |-> ents, removed |-> removed]
    ELSE IF ents = <<>>
    THEN [status |-> "Panic", blobs |-> <<>>, entries |-> ents, removed |-> removed]
    ELSE LET e == ents[Len(ents)]
             rest == SubSeq(ents, 1, Len(ents) - 1)
         IN  IF HashMatches(Head(blob_hashes), e[1])
             THEN get_blobs_loop_KeepsMismatch(rest, Tail(blob_hashes),
                                               Append(blobs, e[2]), Append(removed, e))
             ELSE get_blobs_loop_KeepsMismatch(ents, Tail(blob_hashes), blobs, removed)

\* The loop of get_blobs: pop one entry per requested hash, keep the blob
\* when the hashes are equal; pop().unwrap() panics on an empty vector.
\* removed records the entries popped so far.
RECURSIVE get_blobs_loop(_, _, _, _)
get_blobs_loop(ents, blob_hashes, blobs, removed) ==
    IF blob_hashes = <<>>
    THEN [status |-> "Ok", blobs |-> blobs, entries |-> ents, removed |-> removed]
    ELSE IF ents = <<>>
    THEN [status |-> "Panic", blobs |-> <<>>, entries |-> ents, removed |-> removed]
    ELSE LET e == ents[Len(ents)]
             rest == SubSeq(ents, 1, Len(ents) - 1)
         IN  get_blobs_loop(rest, Tail(blob_hashes),
                            IF HashMatches(Head(blob_hashes), e[1])
                            THEN Append(blobs, e[2]) ELSE blobs,
                            Append(removed, e))

\* Mutant of get_blobs: the request count is checked against the store before
\* anything is popped.
get_blobs_CheckedUpFront(ents, block_ref, blob_hashes) ==
    IF Len(blob_hashes) > Len(ents)
    THEN [status |-> "Panic", blobs |-> <<>>, entries |-> ents, removed |-> <<>>]
    ELSE get_blobs_loop(ents, blob_hashes, <<>>, <<>>)

\* Mutant of get_blobs: a request whose hash differs from its entry's fails
\* the call instead of being skipped.
get_blobs_MismatchFails(ents, block_ref, blob_hashes) ==
    LET r == get_blobs_loop(ents, blob_hashes, <<>>, <<>>) IN
    IF r.status = "Ok" /\ Len(r.blobs) < Len(blob_hashes)
    THEN [r EXCEPT !.status = "Panic", !.blobs = <<>>]
    ELSE r

\* Mutant of get_blobs: a call that runs out of entries puts back what it
\* popped before it fails.
get_blobs_RestoresOnPanic(ents, block_ref, blob_hashes) ==
    LET r == get_blobs_loop(ents, blob_hashes, <<>>, <<>>) IN
    IF r.status = "Panic" THEN [r EXCEPT !.entries = ents, !.removed = <<>>] ELSE r

\* Mutant of get_blobs: blobs are only served for the block "block"; for any
\* other block reference the call returns nothing and leaves the store alone.
get_blobs_ServesOneBlock(ents, block_ref, blob_hashes) ==
    IF block_ref = "block"
    THEN get_blobs_loop(ents, blob_hashes, <<>>, <<>>)
    ELSE [status |-> "Ok", blobs |-> <<>>, entries |-> ents, removed |-> <<>>]

\* PreloadedBlobProvider::get_blobs(&mut self, _block_ref, blob_hashes)
get_blobs(ents, block_ref, blob_hashes) ==
    get_blobs_loop(ents, blob_hashes, <<>>, <<>>)

\* --------------------------------------------------- field-element codec
\* Byte values a blob of the codec runs is made of.
BlobByteSet == {1, 255}

\* Length in bytes of blob_data.blob.0 (131072 in the program).
BYTES_PER_BLOB == WORD_BYTES * FIELD_ELEMENTS_PER_BLOB

\* U256::from_be_bytes: the first byte is the most significant.
RECURSIVE from_be_bytes(_)
from_be_bytes(bytes) ==
    IF bytes = <<>> THEN 0
    ELSE from_be_bytes(SubSeq(bytes, 1, Len(bytes) - 1)) * 256 + bytes[Len(bytes)]

\* The half-open usize range lo..hi as the sequence of indices it yields.
Range(lo, hi) == [i \in 1..(hi - lo) |-> lo + i - 1]

\* Scalar-field modulus, cut to the leading WORD_BYTES bytes of
\* 0x73eda753299d7d483339d80809a1d80553bda402fffe5bfeffffffff00000001.
BLS_MODULUS == from_be_bytes(SubSeq(<<115, 237, 167, 83>>, 1, WORD_BYTES))

\* Mutant of element: the value is reduced into the scalar field.
element_Reduced(bytes) == from_be_bytes(bytes) % BLS_MODULUS

\* U256::from_be_bytes(bytes) of one window: no reduction.
element(bytes) == from_be_bytes(bytes)

\* The loop of field_elements. Slicing blob.0[index..index + 32] panics when
\* the window leaves the array; try_into()? returns Err when the slice is not
\* one word long.
RECURSIVE field_elements_loop(_, _, _)
field_elements_loop(blob, it, acc) ==
    IF it = <<>>
    THEN [status |-> "Ok", value |-> acc]
    ELSE LET index == WORD_BYTES * Head(it) IN
         IF index + WORD_BYTES > Len(blob)
         THEN [status |-> "Panic", value |-> <<>>]
         ELSE LET bytes == SubSeq(blob, index + 1, index + WORD_BYTES) IN
              IF Len(bytes) # WORD_BYTES
              THEN [status |-> "Err", value |-> <<>>]
              ELSE field_elements_loop(blob, Tail(it), Append(acc, element(bytes)))

\* field_elements(blob_data, iterator)
field_elements(blob, it) == field_elements_loop(blob, it, <<>>)

\* intermediate_outputs(blob_data, blocks)
intermediate_outputs(blob, n) == field_elements(blob, Range(0, n))

\* Mutant of trail_data: the range starts one element late.
trail_data_StartsLate(blob, n) == field_elements(blob, Range(n + 1, FIELD_ELEMENTS_PER_BLOB))

\* trail_data(blob_data, blocks)
trail_data(blob, n) == field_elements(blob, Range(n, FIELD_ELEMENTS_PER_BLOB))

\* Mutant of reduce_mod: one conditional subtraction instead of a remainder.
reduce_mod_SubtractOnce(x, modulus) == IF x >= modulus THEN x - modulus ELSE x

\* Uint::reduce_mod
reduce_mod(x, modulus) == IF modulus = 0 THEN 0 ELSE x % modulus

\* hash_to_fe(hash)
hash_to_fe(h) == reduce_mod(from_be_bytes(h), BLS_MODULUS)

\* Byte values a B256 of the hash_to_fe runs is made of: the bytes around the
\* leading bytes of the modulus and of twice the modulus, and the extremes.
HashByteSet == {0, 1, 78, 115, 116, 166, 167, 168, 218, 219, 231, 232, 236, 237, 238, 255}

NoCall == [called |-> FALSE]

NoWitness == [blobs |-> <<>>, commitments |-> <<>>, n_proofs |-> 0, consistent |-> TRUE]

\* Every triple of v is a blob with its own commitment and the proof of that
\* commitment (the three vectors having one length).
Consistent(v) ==
    /\ Len(v.blobs) = Len(v.commitments)
    /\ Len(v.blobs) = Len(v.proofs)
    /\ \A i \in 1..Len(v.blobs) :
        /\ v.commitments[i] = blob_to_kzg_commitment(v.blobs[i])
        /\ v.proofs[i] = compute_blob_kzg_proof(v.blobs[i])

Called(r) == [called |-> TRUE, status |-> r.status, value |-> r.value]

\* ------------------------------------------------------------ store runs
StoreIdle ==
    /\ value = "none"
    /\ witness = NoWitness
    /\ verified = "none"
    /\ entries = <<>>
    /\ popped = 0
    /\ last = NoCall

CodecIdle ==
    /\ blob_data = <<>>
    /\ blocks = 0
    /\ iterator = <<>>
    /\ lead = NoCall
    /\ trail = NoCall
    /\ felems = NoCall

FeIdle ==
    /\ hash = <<>>
    /\ fe = NoCall

Init ==
    /\ pc = "start"
    /\ value \in BlobWitnessData
    /\ witness = NoWitness
    /\ verified = "none"
    /\ entries = <<>>
    /\ popped = 0
    /\ last = NoCall
    /\ CodecIdle
    /\ FeIdle

\* PreloadedBlobProvider::from(value)
Construct ==
    /\ pc = "start"
    /\ LET r == From(value) IN
        /\ pc' = IF r.panic THEN "ctor_panic" ELSE "ready"
        /\ verified' = IF ~r.res.ok THEN "Err" ELSE IF r.res.val THEN "OkTrue" ELSE "OkFalse"
        /\ entries' = r.entries
    /\ value' = "moved"
    /\ witness' = [blobs |-> value.blobs, commitments |-> value.commitments,
                    n_proofs |-> Len(value.proofs), consistent |-> Consistent(value)]
    /\ UNCHANGED <<popped, last, codecVars, feVars>>

\* provider.get_blobs(&block_ref, &blob_hashes)
GetBlobs ==
    /\ pc = "ready"
    /\ \E block_ref \in BlockInfoSet, blob_hashes \in BlobHashesSet :
        LET r == get_blobs(entries, block_ref, blob_hashes) IN
        /\ pc' = IF r.status = "Panic" THEN "get_panic" ELSE "ready"
        /\ entries' = r.entries
        /\ popped' = popped + Len(r.removed)
        /\ last' = [called |-> TRUE, block_ref |-> block_ref, blob_hashes |-> blob_hashes,
                    base |-> popped, before |-> Len(entries),
                    status |-> r.status, blobs |-> r.blobs, removed |-> r.removed]
    /\ UNCHANGED <<value, witness, verified, codecVars, feVars>>

Next == Construct \/ GetBlobs

Spec == Init /\ [][Next]_vars

\* ------------------------------------ store runs with varied call arguments
\* BlockInfo values of the runs that vary the block reference.
BlockInfoArgs == {"block", "other_block"}

\* blob_hashes slices whose indices start at 0 or at 1.
BlobHashesArgs ==
    {IndexedBlobHashes(hs, first) : hs \in SeqsUpTo(HashSet, MaxReq), first \in 0..1}

\* provider.get_blobs(&block_ref, &blob_hashes), any block reference and indices
GetBlobsAnyArgs ==
    /\ pc = "ready"
    /\ \E block_ref \in BlockInfoArgs, blob_hashes \in BlobHashesArgs :
        LET r == get_blobs(entries, block_ref, blob_hashes) IN
        /\ pc' = IF r.status = "Panic" THEN "get_panic" ELSE "ready"
        /\ entries' = r.entries
        /\ popped' = popped + Len(r.removed)
        /\ last' = [called |-> TRUE, block_ref |-> block_ref, blob_hashes |-> blob_hashes,
                    base |-> popped, before |-> Len(entries),
                    status |-> r.status, blobs |-> r.blobs, removed |-> r.removed]
    /\ UNCHANGED <<value, witness, verified, codecVars, feVars>>

\* Witness data a store is built from: vectors of one length, every blob with
\* its own proof, every commitment a decodable one (of that blob or not).
InitArgs ==
    /\ pc = "start"
    /\ value \in {v \in BlobWitnessData :
            /\ Len(v.commitments) = Len(v.blobs)
            /\ Len(v.proofs) = Len(v.blobs)
            /\ \A i \in 1..Len(v.blobs) :
                /\ v.commitments[i] # BadBytes48
                /\ v.proofs[i] = compute_blob_kzg_proof(v.blobs[i])}
    /\ witness = NoWitness
    /\ verified = "none"
    /\ entries = <<>>
    /\ popped = 0
    /\ last = NoCall
    /\ CodecIdle
    /\ FeIdle

NextArgs == Construct \/ GetBlobsAnyArgs

SpecArgs == InitArgs /\ [][NextArgs]_vars

\* ------------------------------------- intermediate_outputs / trail_data runs
InitSplit ==
    /\ pc = "codec"
    /\ StoreIdle
    /\ FeIdle
    /\ blob_data \in [1..BYTES_PER_BLOB -> BlobByteSet]
    /\ blocks \in 0..(FIELD_ELEMENTS_PER_BLOB + 1)
    /\ iterator = <<>>
    /\ lead = NoCall
    /\ trail = NoCall
    /\ felems = NoCall

IntermediateOutputs ==
    /\ pc = "codec"
    /\ ~lead.called
    /\ lead' = Called(intermediate_outputs(blob_data, blocks))
    /\ UNCHANGED <<pc, storeVars, feVars, blob_data, blocks, iterator, trail, felems>>

TrailData ==
    /\ pc = "codec"
    /\ ~trail.called
    /\ trail' = Called(trail_data(blob_data, blocks))
    /\ UNCHANGED <<pc, storeVars, feVars, blob_data, blocks, iterator, lead, felems>>

NextSplit == IntermediateOutputs \/ TrailData

SpecSplit == InitSplit /\ [][NextSplit]_vars

\* ------------------------------------------------------ field_elements runs
\* Index iterators: every short sequence of indices, the index one past the
\* last element included, and the range over the whole blob.
IteratorSet ==
    SeqsUpTo(0..FIELD_ELEMENTS_PER_BLOB, MaxIter)
        \cup {Range(0, FIELD_ELEMENTS_PER_BLOB), Range(0, FIELD_ELEMENTS_PER_BLOB + 1)}

InitElems ==
    /\ pc = "codec"
    /\ StoreIdle
    /\ FeIdle
    /\ blob_data \in [1..BYTES_PER_BLOB -> BlobByteSet]
    /\ blocks = 0
    /\ iterator \in IteratorSet
    /\ lead = NoCall
    /\ trail = NoCall
    /\ felems = NoCall

FieldElements ==
    /\ pc = "codec"
    /\ ~felems.called
    /\ felems' = Called(field_elements(blob_data, iterator))
    /\ UNCHANGED <<pc, storeVars, feVars, blob_data, blocks, iterator, lead, trail>>

NextElems == FieldElements

SpecElems == InitElems /\ [][NextElems]_vars

\* ---------------------------------------------------------- hash_to_fe runs
InitFe ==
    /\ pc = "codec"
    /\ StoreIdle
    /\ CodecIdle
    /\ hash \in [1..WORD_BYTES -> HashByteSet]
    /\ fe = NoCall

HashToFe ==
    /\ pc = "codec"
    /\ ~fe.called
    /\ fe' = [called |-> TRUE, value |-> hash_to_fe(hash)]
    /\ UNCHANGED <<pc, storeVars, codecVars, hash>>

NextFe == HashToFe

SpecFe == InitFe /\ [][NextFe]_vars

\* ================================================================ claims
\* The hash values of a blob_hashes slice.
RequestedHashes(blob_hashes) == [j \in 1..Len(blob_hashes) |-> blob_hashes[j].hash]

\* The versioned hashes of the witness commitments, in original index order.
WitnessHashes == [i \in 1..Len(witness.commitments) |-> kzg_to_versioned_hash(witness.commitments[i])]

\* The last call ran on a store nothing had been popped from and asked for the
\* hashes of all commitments in original order.
FreshInOrderCall ==
    /\ last.called
    /\ last.base = 0
    /\ RequestedHashes(last.blob_hashes) = WitnessHashes

\* C1: for consistent witness data the construction succeeds, and get_blobs on
\* the fresh store with the versioned hashes of all commitments in original
\* order returns Ok with exactly the witness blobs in original order.
C1_FreshInOrderReturnsBlobs ==
    witness.consistent =>
        /\ pc # "ctor_panic"
        /\ pc # "start" => verified = "OkTrue"
        /\ FreshInOrderCall =>
            /\ last.status = "Ok"
            /\ Len(last.blobs) = Len(last.blob_hashes)
            /\ last.blobs = witness.blobs

C1_Witness ==
    /\ witness.consistent
    /\ FreshInOrderCall
    /\ Len(witness.blobs) = 2
    /\ witness.blobs[1] # witness.blobs[2]

\* C2: when at least one triple of the witness data is inconsistent, the
\* construction fails, no store is produced and no blob is ever returned.
C2_AllOrNothingGate ==
    (pc # "start" /\ ~witness.consistent) =>
        /\ pc = "ctor_panic"
        /\ entries = <<>>
        /\ ~last.called

\* C3: every blob of a get_blobs result comes from an entry popped for a
\* request of that call whose hash equals the entry's hash, every popped entry
\* pairs the versioned hash of a commitment with the blob of the same original
\* index, and a request whose hash differs from its entry's yields no blob.
C3_NeverWrongBlob ==
    (last.called /\ last.status = "Ok") =>
        LET hs == last.blob_hashes
            rm == last.removed
            matching == {j \in 1..Len(hs) : hs[j].hash = rm[j][1]}
        IN  /\ Len(rm) = Len(hs)
            /\ \A j \in 1..Len(rm) :
                /\ last.base + j <= Len(witness.blobs)
                /\ rm[j][1] = kzg_to_versioned_hash(witness.commitments[last.base + j])
                /\ rm[j][2] = witness.blobs[last.base + j]
            /\ \A i \in 1..Len(last.blobs) : \E j \in matching : last.blobs[i] = rm[j][2]
            /\ Len(last.blobs) = Cardinality(matching)

C3_Witness ==
    /\ last.called
    /\ last.status = "Ok"
    /\ Len(last.blob_hashes) = 2
    /\ Len(last.blobs) = 1
    /\ last.blob_hashes[1].hash # last.removed[1][1]
    /\ last.blob_hashes[1].hash \in {WitnessHashes[i] : i \in 1..Len(witness.commitments)}

\* C4: a get_blobs call with m hashes on a store of r entries panics on the
\* empty store exactly when m > r, and it does so at request r + 1, after the
\* first r requests have each popped one entry.
C4_ExhaustionPoint ==
    last.called =>
        /\ last.status = "Panic" <=> Len(last.blob_hashes) > last.before
        /\ pc = "get_panic" <=> last.status = "Panic"
        /\ last.status = "Panic" => Len(last.removed) = last.before /\ entries = <<>>
        /\ last.status = "Ok" => Len(last.removed) = Len(last.blob_hashes)

C4_Witness ==
    /\ last.called
    /\ last.status = "Panic"
    /\ last.before = 2
    /\ Len(last.blob_hashes) = 3

\* C5 (as stated): a failed batch check reaches the caller of the construction
\* as an error value, not as a panic.
C5_FailureIsReturnedValue ==
    verified \in {"Err", "OkFalse"} => pc = "ctor_err"

\* C5 (amended): a batch check that ends in Err makes the construction panic;
\* no store and no error value reaches the caller, and nothing is ever served.
C5_ErrPanicsConstruction ==
    /\ pc # "ctor_err"
    /\ verified = "Err" =>
        /\ pc = "ctor_panic"
        /\ entries = <<>>
        /\ ~last.called

C5_Witness ==
    /\ verified = "Err"
    /\ pc = "ctor_panic"
    /\ Len(witness.blobs) = 2
    /\ Len(witness.commitments) = 2
    /\ witness.n_proofs = 2

\* Some index of the iterator has its window past the end of the blob.
SomeWindowOutOfRange == \E j \in 1..Len(iterator) : iterator[j] >= FIELD_ELEMENTS_PER_BLOB

\* C6: field_elements returns an error value, and no elements, whenever some
\* index of its range has a byte window that leaves the blob.
C6_OutOfRangeIsErrValue ==
    (felems.called /\ SomeWindowOutOfRange) =>
        /\ felems.status = "Err"
        /\ felems.value = <<>>

\* C7: for 0 <= blocks <= FIELD_ELEMENTS_PER_BLOB, intermediate_outputs
\* succeeds with blocks elements, trail_data succeeds with
\* FIELD_ELEMENTS_PER_BLOB - blocks elements, and the first followed by the
\* second is field_elements over the whole blob.
C7_LeadingThenTrailingIsWhole ==
    blocks <= FIELD_ELEMENTS_PER_BLOB =>
        /\ lead.called => lead.status = "Ok" /\ Len(lead.value) = blocks
        /\ trail.called =>
            trail.status = "Ok" /\ Len(trail.value) = FIELD_ELEMENTS_PER_BLOB - blocks
        /\ (lead.called /\ trail.called) =>
            LET whole == field_elements(blob_data, Range(0, FIELD_ELEMENTS_PER_BLOB)) IN
            /\ whole.status = "Ok"
            /\ lead.value \o trail.value = whole.value

C7_Witness ==
    /\ lead.called
    /\ trail.called
    /\ blocks = 1
    /\ lead.value # <<>>
    /\ trail.value # <<>>
    /\ lead.value[1] # trail.value[1]

\* The unsigned integer whose big-endian representation is bytes.
BigEndianValue(bytes) ==
    LET RECURSIVE Sum(_)
        Sum(k) == IF k = 0 THEN 0 ELSE 256 * Sum(k - 1) + bytes[k]
    IN  Sum(Len(bytes))

\* C8: hash_to_fe(h) is below the modulus, congruent to h modulo the modulus,
\* and equal to h when h is already below the modulus.
C8_ReducedIntoField ==
    fe.called =>
        LET h == BigEndianValue(hash) IN
        /\ fe.value >= 0
        /\ fe.value < BLS_MODULUS
        /\ (h - fe.value) % BLS_MODULUS = 0
        /\ h < BLS_MODULUS => fe.value = h

C8_Witness ==
    /\ fe.called
    /\ BigEndianValue(hash) >= 2 * BLS_MODULUS
    /\ fe.value # 0

\* C9: witness data whose three vectors differ in length never yields a
\* store, and a store built from vectors of common length n holds n entries,
\* the one for original index i pairing the versioned hash of commitments[i]
\* with blobs[i].
C9_ShapeAndPairing ==
    LET n == Len(witness.blobs)
        sameLength == Len(witness.commitments) = n /\ witness.n_proofs = n
    IN  /\ (pc # "start" /\ ~sameLength) => (pc = "ctor_panic" /\ entries = <<>>)
        /\ pc \in {"ready", "get_panic"} => sameLength
        /\ (pc = "ready" /\ popped = 0) =>
            /\ Len(entries) = n
            /\ \A i \in 1..n :
                entries[n + 1 - i] = <<kzg_to_versioned_hash(witness.commitments[i]), witness.blobs[i]>>

C9_Witness ==
    /\ pc = "ready"
    /\ popped = 0
    /\ Len(entries) = 2
    /\ entries[1] # entries[2]

\* C10: a successful field_elements has one element per index of the
\* iterator, in iterator order, each the unreduced big-endian integer of the
\* window of its index, so a value may be at or above the modulus.
C10_RawElementsInOrder ==
    (felems.called /\ felems.status = "Ok") =>
        /\ Len(felems.value) = Len(iterator)
        /\ \A j \in 1..Len(iterator) :
            felems.value[j] =
                BigEndianValue([k \in 1..WORD_BYTES |-> blob_data[WORD_BYTES * iterator[j] + k]])

C10_Witness ==
    /\ felems.called
    /\ felems.status = "Ok"
    /\ Len(iterator) = 2
    /\ iterator[1] > iterator[2]
    /\ felems.value[1] >= BLS_MODULUS
    /\ felems.value[2] < BLS_MODULUS

\* The witness blobs of the original indices first + 1 .. first + Len(hs) whose
\* commitment hashes to the hash requested at the same position, in order.
RECURSIVE OwnTurnBlobs(_, _)
OwnTurnBlobs(first, hs) ==
    IF hs = <<>> THEN <<>>
    ELSE LET m == Len(hs)
             front == OwnTurnBlobs(first, SubSeq(hs, 1, m - 1))
         IN  IF hs[m] = kzg_to_versioned_hash(witness.commitments[first + m])
             THEN Append(front, witness.blobs[first + m])
             ELSE front

\* C11: a get_blobs call with m hashes on a store of at least m entries
\* returns Ok, and its result is the subsequence of the m popped blobs at the
\* positions where the requested hash equals the popped entry's hash; a
\* mismatch shortens the result and reports nothing.
C11_MismatchSilentlyDropped ==
    (last.called /\ Len(last.blob_hashes) <= last.before) =>
        /\ last.status = "Ok"
        /\ pc = "ready"
        /\ last.blobs = OwnTurnBlobs(last.base, RequestedHashes(last.blob_hashes))

C11_Witness ==
    /\ last.called
    /\ last.status = "Ok"
    /\ Len(last.blob_hashes) = 2
    /\ last.before = 2
    /\ Len(last.blobs) = 1
    /\ last.blob_hashes[1].hash # last.removed[1][1]
    /\ last.blob_hashes[2].hash = last.removed[2][1]

\* C12: a successful get_blobs call with m hashes removes exactly the last m
\* entries of the store, matching or not, and leaves the others in place; a
\* call with no hashes returns no blob and leaves the store as it was; a
\* non-empty call never leaves the store as it was, so repeating it acts on
\* other entries.
C12_CallConsumesItsEntries ==
    [][(pc = "ready" /\ last'.called /\ last'.status = "Ok") =>
        LET m == Len(last'.blob_hashes) IN
        /\ m <= Len(entries)
        /\ Len(entries') = Len(entries) - m
        /\ entries' = SubSeq(entries, 1, Len(entries) - m)
        /\ m = 0 => (last'.blobs = <<>> /\ entries' = entries)
        /\ m > 0 => entries' # entries
        /\ last'.base = popped
        /\ popped' = popped + m]_vars

C12_Witness ==
    /\ pc = "ready"
    /\ last.called
    /\ last.base = 1
    /\ Len(last.blob_hashes) = 1
    /\ last.blobs = <<>>
    /\ entries = <<>>
    /\ Len(witness.blobs) = 2

\* C13: once k hashes have been requested since construction, in any number
\* of calls, the store holds exactly the pairs of the original indices
\* k + 1 .. n, the pair of index k + 1 being the one removed next; entries of
\* equal commitments stay separate entries.
C13_RemainingInOriginalOrder ==
    LET n == Len(witness.blobs) IN
    /\ pc = "ready" =>
        /\ popped <= n
        /\ Len(entries) = n - popped
        /\ \A i \in (popped + 1)..n :
            entries[n + 1 - i] = <<kzg_to_versioned_hash(witness.commitments[i]), witness.blobs[i]>>
        /\ popped < n =>
            entries[Len(entries)] =
                <<kzg_to_versioned_hash(witness.commitments[popped + 1]), witness.blobs[popped + 1]>>
        /\ last.called => popped = last.base + Len(last.blob_hashes)
    /\ pc = "get_panic" => (entries = <<>> /\ popped = n)

C13_Witness ==
    /\ pc = "ready"
    /\ Len(witness.blobs) = 2
    /\ witness.consistent
    /\ witness.commitments[1] = witness.commitments[2]
    /\ last.called
    /\ last.base = 0
    /\ popped = 1
    /\ Len(entries) = 1

\* C14: the blob of original index k is returned only for the k-th hash
\* requested since construction. In every get_blobs call a blob is returned
\* only for a request whose hash is the hash of the entry whose turn it is,
\* that entry being the pair of the original index popped + j for request j;
\* a hash held by another entry of the store yields nothing, and every entry
\* whose turn has passed, served or discarded, is gone from the store, so no
\* later call returns it.
C14_ServedOnlyAtOwnTurn ==
    [][(pc = "ready" /\ last'.called) =>
        LET hs == last'.blob_hashes
            r == Len(entries)
            taken == Min(Len(hs), r)
            own == {j \in 1..taken : hs[j].hash = entries[r + 1 - j][1]}
        IN  /\ last'.base = popped
            /\ \A j \in 1..taken :
                entries[r + 1 - j] =
                    <<kzg_to_versioned_hash(witness.commitments[popped + j]), witness.blobs[popped + j]>>
            /\ Len(last'.blobs) <= Cardinality(own)
            /\ \A i \in 1..Len(last'.blobs) : \E j \in own : last'.blobs[i] = witness.blobs[popped + j]
            /\ entries' = SubSeq(entries, 1, r - taken)
            /\ popped' = popped + taken]_vars

C14_Witness ==
    /\ pc = "ready"
    /\ Len(witness.blobs) = 2
    /\ witness.consistent
    /\ witness.commitments[1] # witness.commitments[2]
    /\ last.called
    /\ last.base = 1
    /\ RequestedHashes(last.blob_hashes) = <<kzg_to_versioned_hash(witness.commitments[1])>>
    /\ last.blobs = <<>>
    /\ entries = <<>>

\* C15: a get_blobs call with more hashes than the store has entries is not
\* atomic: the entries popped before the panic stay popped, so the store is
\* empty afterwards, and the blobs matched before the panic are not returned.
C15_ExhaustedCallIsNotAtomic ==
    [][(pc = "ready" /\ pc' = "get_panic") =>
        /\ Len(last'.blob_hashes) > Len(entries)
        /\ entries' = <<>>
        /\ entries # <<>> => entries' # entries
        /\ popped' = popped + Len(entries)
        /\ last'.status = "Panic"
        /\ last'.blobs = <<>>]_vars

C15_Witness ==
    /\ pc = "get_panic"
    /\ last.before = 2
    /\ Len(last.blob_hashes) = 3
    /\ last.blob_hashes[1].hash = kzg_to_versioned_hash(witness.commitments[last.base + 1])
    /\ last.blob_hashes[2].hash = kzg_to_versioned_hash(witness.commitments[last.base + 2])
    /\ last.blobs = <<>>
    /\ entries = <<>>

\* C16: what a get_blobs call returns and what it leaves in the store follow
\* from the store it ran on and the requested hash values alone, whatever the
\* block reference and the index fields of the request: so two calls on equal
\* stores that agree on the hash values give the same blobs and equal stores.
C16_ArgumentsOtherThanHashesIgnored ==
    last.called =>
        LET n == Len(witness.blobs)
            hs == RequestedHashes(last.blob_hashes)
            m == Len(hs)
            r == n - last.base
        IN  /\ last.before = r
            /\ last.status = (IF m > r THEN "Panic" ELSE "Ok")
            /\ last.blobs = (IF m > r THEN <<>> ELSE OwnTurnBlobs(last.base, hs))
            /\ popped = last.base + Min(m, r)
            /\ entries =
                [i \in 1..(n - popped) |->
                    <<kzg_to_versioned_hash(witness.commitments[n + 1 - i]), witness.blobs[n + 1 - i]>>]

C16_Witness ==
    /\ last.called
    /\ last.status = "Ok"
    /\ last.block_ref = "other_block"
    /\ Len(last.blob_hashes) = 2
    /\ last.blob_hashes[1].index = 1
    /\ last.blobs = witness.blobs
    /\ witness.blobs[1] # witness.blobs[2]

====
